---- MODULE Spec2Model ----
(***************************************************************************)
(* Model of src/src/model-actions.js: the Double-DQN training loop of the  *)
(* dino player (trainDinoModel), the optimization step (optimizeModel),    *)
(* the target synchronisation (updateTargetModel), the state encoder       *)
(* (stateToTensor) and the session driver (setupModelTraining).            *)
(*                                                                         *)
(* Floating point values are held as fixed-point integers: rewards and     *)
(* Q-values in 1/Scale, gamma in tenths, epsilon in thousandths.           *)
(***************************************************************************)
EXTENDS Integers, Sequences, FiniteSets, TLC

VARIABLES
    args,           \* arguments of trainDinoModel: gamma, epsilonStart, epsilonEnd, epsilonDecay
    pc,             \* position of the async control flow
    episode,        \* for-loop counter of trainDinoModel
    epsilon,        \* exploration rate (thousandths)
    episodeReward,  \* reward accumulator (1/Scale)
    state,          \* current State of the while loop
    nextState,      \* polled next State
    stateTensor,    \* stateToTensor(state) of the running iteration
    action,         \* action selected in the running iteration
    timeDelta,      \* nextState.time - state.time of the running iteration
    memory,         \* memory.buffer: the replay memory
    experiences,    \* the batch sampled for the optimization in flight
    fitCall,        \* arguments of the onlineModel.fit call in flight
    caught,         \* exception caught by the try/catch around the optimization
    onlineW,        \* weights of the online model
    targetW,        \* weights of the target model
    savedMain,      \* checkpoint stored under dino-chrome-model/main
    savedTarget,    \* checkpoint stored under dino-chrome-model/target
    syncCalls,      \* number of updateTargetModel invocations so far
    error,          \* error caught by setupModelTraining around trainDinoModel
    finalSaves,     \* model.save calls issued by setupModelTraining after training
    console,        \* what the last step wrote to the console
    fileLog,        \* last line appended to logs.txt
    envTime,        \* game clock of the environment behind the proxy
    dispatch,       \* whether a performAction call of the loop is still in flight
    sigint,         \* position of the SIGINT handler (saveAndExit)
    audit           \* history: rewards and done transitions stored in the running
                    \* episode, memory.add calls so far (counted up to Capacity + 1)

vars == <<args, pc, episode, epsilon, episodeReward, state, nextState, stateTensor,
          action, timeDelta, memory, experiences, fitCall, caught, onlineW, targetW,
          savedMain, savedTarget, syncCalls, error, finalSaves, console, fileLog,
          envTime, dispatch, sigint, audit>>

----------------------------------------------------------------------------
(* Bounds of the model and program constants *)

\* number of episodes trained (10000 in setupModelTraining)
Episodes == 2
\* capacity of the replay memory (40000 in setupModelTraining)
Capacity == 2
\* size of a sampled batch (64 in setupModelTraining)
BatchSize == 2
\* episodes between two target synchronisations (10 in setupModelTraining)
TargetUpdateFrequency == 2
\* the game clock value at which the modelled game is over at the latest
MaxTime == 80

\* fixed-point unit of rewards and Q-values
Scale == 100
\* lower and upper end of the accepted inter-state time window (ms)
MinDelta == 40
MaxDelta == 60
\* gamma of setupModelTraining (0.9), in tenths
GammaTenths == 9

\* values of variables that hold nothing: no State, no tensor or batch, no action,
\* no delta, no fit call
NoState == [time |-> -1, done |-> FALSE, obstacles |-> <<>>, jumping |-> FALSE, ypos |-> 0]
NoTensor == <<>>
NoAction == -1
NoDelta == -1
NoBatch == <<>>
NoCall == [x |-> <<>>, y |-> <<>>]
\* the history before anything was stored
NoAudit == [rewards |-> 0, dones |-> 0, adds |-> 0]

----------------------------------------------------------------------------
(* State encoder: obstacleToVector, stateToTensor *)

\* ~~(a / b) for b > 0: the quotient truncated toward zero
Trunc(a, b) == IF a >= 0 THEN a \div b ELSE -((-a) \div b)

Min(a, b) == IF a < b THEN a ELSE b
Max(a, b) == IF a > b THEN a ELSE b

\* the bucket without its upper clamp
distance_NoUpperClamp(obstacle) == Max(0, Trunc(obstacle.xPos - 19, 16))

\* the distance bucket of an obstacle: Math.min(39, Math.max(0, ~~((xPos - 19) / 16)))
distance(obstacle) == Min(39, Max(0, Trunc(obstacle.xPos - 19, 16)))

\* vector[i] = x, for a 0-based index i
SetAt(vector, i, x) == [vector EXCEPT ![i + 1] = x]

obstacleToVector(obstacle, vector, offset) ==
    LET v1 == SetAt(vector, offset + distance(obstacle), 1)
        v2 == SetAt(v1, offset + 40, obstacle.yPos)
        v3 == SetAt(v2, offset + 41, obstacle.width)
    IN  SetAt(v3, offset + 42, obstacle.size)

\* the literal of 88 zeros
ZeroVector == [i \in 1..88 |-> 0]

\* what a call leaves in place of a tensor when it throws a TypeError
TypeError == <<"TypeError">>

\* a State without an obstacles property makes obstacles.length throw
stateToTensor(s) ==
    IF "obstacles" \notin DOMAIN s
    THEN TypeError
    ELSE
    LET obstacles == s.obstacles
        v0 == ZeroVector
        v1 == IF Len(obstacles) > 0
              THEN LET w == obstacleToVector(obstacles[1], v0, 0)
                   IN  IF Len(obstacles) > 1
                       THEN obstacleToVector(obstacles[2], w, 43)
                       ELSE w
              ELSE v0
        v2 == IF s.jumping THEN SetAt(v1, 86, 1) ELSE v1
    IN  SetAt(v2, 87, s.ypos)

----------------------------------------------------------------------------
(* The models: weights and the network function *)

\* the weight settings a model can have
Weights == {"w0", "w1", "w2"}

\* whether an obstacle is encoded in the first block of a feature vector
HasObstacle(v) == \E i \in 1..40 : v[i] = 1

\* model.apply(v) under weights w: the two action values, in 1/Scale
apply(w, v) ==
    CASE w = "w0" -> <<0, 0>>
      [] w = "w1" -> IF HasObstacle(v) THEN <<100, 300>> ELSE <<200, -100>>
      [] OTHER    -> IF HasObstacle(v) THEN <<-200, 150>> ELSE <<50, 400>>

\* argMax(-1) of a row of two values: the first maximum
argMax(q) == IF q[2] > q[1] THEN 1 ELSE 0

----------------------------------------------------------------------------
(* The environment behind the proxy *)

\* amounts by which the game clock can have advanced between two proxy calls
TimeSteps == {20, 25, 40}

\* what the game shows at clock value t
Observation(t, d) ==
    [time      |-> t,
     done      |-> d,
     obstacles |-> IF t < 50 THEN <<>>
                   ELSE <<[xPos |-> 83, yPos |-> 105, width |-> 51, size |-> 3]>>,
     jumping   |-> FALSE,
     ypos      |-> 93]

\* the snapshots proxy.state() can resolve with when the clock advanced by adv
ProxyStates(adv) ==
    LET t == Min(envTime + adv, MaxTime)
    IN  {Observation(t, d) : d \in (IF t >= MaxTime THEN {TRUE} ELSE BOOLEAN)}

----------------------------------------------------------------------------
(* Replay memory (Memory is required from ../src/Memory) *)

\* an insertion that never evicts
MemoryAdd_NoEvict(buffer, t) == Append(buffer, t)

\* memory.add(t): FIFO insertion, the oldest entry leaves a full buffer
MemoryAdd(buffer, t) ==
    IF Len(buffer) >= Capacity THEN Append(Tail(buffer), t) ELSE Append(buffer, t)

\* memory.sample(n): n independent uniform draws, or the insufficient-data failure
MemorySample(buffer, n) ==
    IF Len(buffer) < n THEN {[throws |-> TRUE, batch |-> <<>>]}
    ELSE {[throws |-> FALSE, batch |-> [i \in 1..n |-> buffer[idx[i]]]] :
             idx \in [1..n -> 1..Len(buffer)]}

----------------------------------------------------------------------------
(* Pure parts of trainDinoModel *)

\* a polling loop that takes the first state it gets
PollAgain_Never(st, ns) == FALSE

\* the while condition of the polling loop: keep polling
PollAgain(st, ns) == ~ns.done /\ ns.time - st.time < MinDelta

\* OutsideWindow without the upper end of the time frame
OutsideWindow_NoUpper(delta) == delta < MinDelta

\* the step is evaluated only if the delta lies in the time frame
OutsideWindow(delta) == delta < MinDelta \/ delta > MaxDelta

\* Reward with the jump test ahead of the terminal test
Reward_JumpFirst(ns, a) ==
    IF a = 1 THEN 0
    ELSE IF ns.done THEN -1 * Scale
    ELSE Scale \div 10

\* reward of an accepted step, in 1/Scale: -1, 0 or 0.1
Reward(ns, a) ==
    IF ns.done THEN -1 * Scale
    ELSE IF a = 1 THEN 0
    ELSE Scale \div 10

\* MemoryGuard that only asks for a non-empty buffer
MemoryGuard_NonEmpty(buffer, n) == Len(buffer) > 0

\* the guard of the optimization: memory.buffer.length >= batchSize
MemoryGuard(buffer, n) == Len(buffer) >= n

\* ShouldSync on the 0-based episode index
ShouldSync_ZeroBased(e) == e % TargetUpdateFrequency = 0

\* (episode + 1) % targetUpdateFrequency === 0
ShouldSync(e) == (e + 1) % TargetUpdateFrequency = 0

\* terms k..12 of the series of exp(-n/d), in millionths; t is term k-1 (unsigned)
RECURSIVE ExpSeries(_, _, _, _)
ExpSeries(n, d, k, t) ==
    IF k > 12 THEN 0
    ELSE LET u == (t * n) \div (d * k)
         IN  (IF k % 2 = 1 THEN -u ELSE u) + ExpSeries(n, d, k + 1, u)

\* Math.exp(-n / d) in millionths
ExpNeg(n, d) == 1000000 + ExpSeries(n, d, 1, 1000000)

\* a decay driven by the number of steps stored so far instead of the episode
DecayedEpsilon_ByStep(e) ==
    args.epsilonEnd
    + ((args.epsilonStart - args.epsilonEnd) * ExpNeg(audit.adds, args.epsilonDecay))
          \div 1000000

\* epsilonEnd + (epsilonStart - epsilonEnd) * Math.exp(-1 * episode / epsilonDecay)
DecayedEpsilon(e) ==
    args.epsilonEnd
    + ((args.epsilonStart - args.epsilonEnd) * ExpNeg(e, args.epsilonDecay)) \div 1000000

\* the actions selectAction can resolve with: a random one when
\* Math.random() < epsilon, the model's first best one otherwise
selectAction(w, tensor, eps) ==
    (IF eps > 0 THEN {0, 1} ELSE {})
    \cup (IF eps < 1000 THEN {argMax(apply(w, tensor))} ELSE {})

----------------------------------------------------------------------------
(* optimizeModel *)

noOfActions == Cardinality({0, 1})

\* dataSync() of a batch of rows: the row-major flat array, 0-based
Flat(rows) ==
    [k \in 0..(Len(rows) * noOfActions - 1) |->
        rows[(k \div noOfActions) + 1][(k % noOfActions) + 1]]

onlineModelQValues(exps, onl) == Flat([i \in 1..Len(exps) |-> apply(onl, exps[i].state)])

targetModelNextQValues(exps, tgt) ==
    Flat([i \in 1..Len(exps) |-> apply(tgt, exps[i].nextState)])

\* onlineModelNextActions taken from the target model (plain DQN)
onlineModelNextActions_ByTarget(exps, onl, tgt) ==
    [i \in 0..(Len(exps) - 1) |-> argMax(apply(tgt, exps[i + 1].nextState))]

\* argMax(-1) of the online model's next-state values, 0-based by batch row
onlineModelNextActions(exps, onl, tgt) ==
    [i \in 0..(Len(exps) - 1) |-> argMax(apply(onl, exps[i + 1].nextState))]

\* targetQValue that bootstraps terminal transitions too
targetQValue_Bootstrap(experience, nextTargetQValue, gamma) ==
    experience.reward + (gamma * nextTargetQValue) \div 10

\* the regression target of one experience; gamma in tenths
targetQValue(experience, nextTargetQValue, gamma) ==
    IF experience.done THEN experience.reward
    ELSE experience.reward + (gamma * nextTargetQValue) \div 10

\* the index read in the flat target-model output for batch row i
nextTargetIndex(i, nextOnlineAction) == noOfActions * i + nextOnlineAction

\* targets: per batch row the online prediction with the taken action's entry overwritten
optimizeTargets(exps, gamma, onl, tgt) ==
    [j \in 1..Len(exps) |->
        LET i == j - 1
            experience == exps[j]
            nextOnlineAction == onlineModelNextActions(exps, onl, tgt)[i]
            nextTargetQValue ==
                targetModelNextQValues(exps, tgt)[nextTargetIndex(i, nextOnlineAction)]
            q == onlineModelQValues(exps, onl)
            targetArray == [a \in 1..noOfActions |-> q[i * noOfActions + a - 1]]
        IN  [targetArray EXCEPT ![experience.action + 1] =
                targetQValue(experience, nextTargetQValue, gamma)]]

\* the arguments optimizeModel hands to onlineModel.fit
FitArguments(exps, gamma, onl, tgt) ==
    [x |-> [j \in 1..Len(exps) |-> exps[j].state],
     y |-> optimizeTargets(exps, gamma, onl, tgt)]

\* the weights a fit of the online model can leave behind
FitResults == {"w0", "w1"}

----------------------------------------------------------------------------
(* The session: setupModelTraining and trainDinoModel as a state machine *)

\* the argument sets of trainDinoModel considered: epsilon in thousandths
Arguments ==
    {[gamma |-> GammaTenths, epsilonStart |-> es, epsilonEnd |-> 10, epsilonDecay |-> 2] :
        es \in {0, 1000}}

Init ==
    /\ args \in Arguments
    /\ pc = "for"
    /\ episode = 0
    /\ epsilon = args.epsilonStart
    /\ episodeReward = 0
    /\ state = NoState
    /\ nextState = NoState
    /\ stateTensor = NoTensor
    /\ action = NoAction
    /\ timeDelta = NoDelta
    /\ memory = <<>>
    /\ experiences = NoBatch
    /\ fitCall = NoCall
    /\ caught = "none"
    /\ onlineW = "w0"
    /\ targetW = "w0"
    /\ savedMain = "none"
    /\ savedTarget = "none"
    /\ syncCalls = 0
    /\ error = "none"
    /\ finalSaves = <<>>
    /\ console = "none"
    /\ fileLog = "separator"
    /\ envTime = 0
    /\ dispatch = "none"
    /\ sigint = "none"
    /\ audit = NoAudit

\* the variables of trainDinoModel and setupModelTraining themselves
programVars == <<args, pc, episode, epsilon, episodeReward, state, nextState,
                 stateTensor, action, timeDelta, memory, experiences, fitCall, caught,
                 onlineW, targetW, savedMain, savedTarget, syncCalls, error,
                 finalSaves, console, fileLog, envTime>>
modelVars == <<onlineW, targetW, savedMain, savedTarget>>
loopVars == <<episode, epsilon, episodeReward>>
bodyVars == <<stateTensor, action, timeDelta, experiences, fitCall, caught>>

\* the while body's locals leave scope
BodyReset ==
    /\ nextState' = NoState
    /\ stateTensor' = NoTensor
    /\ action' = NoAction
    /\ timeDelta' = NoDelta
    /\ experiences' = NoBatch
    /\ fitCall' = NoCall
    /\ caught' = "none"

\* a rejection leaves trainDinoModel: the catch of setupModelTraining reports it
\* and the function goes on to save the online model
Abort(kind) ==
    /\ error' = kind
    /\ console' = "Error during training"
    /\ pc' = "saveMain"
    /\ finalSaves' = <<"main">>
    /\ state' = NoState
    /\ BodyReset
    /\ UNCHANGED <<args, sigint, dispatch, audit, loopVars, memory, modelVars, syncCalls, fileLog, envTime>>

\* for (let episode = 0; episode < episodes; episode++): the test, then either
\* proxy.restart() is called or trainDinoModel returns to setupModelTraining
ForTest ==
    /\ pc = "for"
    /\ IF episode < Episodes
       THEN /\ pc' = "restart"
            /\ audit' = [audit EXCEPT !.rewards = 0, !.dones = 0]
            /\ UNCHANGED finalSaves
       ELSE /\ pc' = "saveMain"
            /\ finalSaves' = <<"main">>
            /\ UNCHANGED audit
    /\ console' = "none"
    /\ UNCHANGED <<args, sigint, dispatch, loopVars, state, nextState, bodyVars, memory, modelVars,
                   syncCalls, error, fileLog, envTime>>

\* await proxy.restart() resolves: a fresh game; proxy.state() is called
RestartResolve ==
    /\ pc = "restart"
    /\ envTime' = 0
    /\ pc' = "initState"
    /\ console' = "none"
    /\ UNCHANGED <<args, sigint, dispatch, audit, loopVars, state, nextState, bodyVars, memory, modelVars,
                   syncCalls, error, finalSaves, fileLog>>

RestartReject ==
    /\ pc = "restart"
    /\ Abort("EnvironmentError")

\* let state = await proxy.state() resolves
InitStateResolve ==
    /\ pc = "initState"
    /\ \E s \in ProxyStates(0) :
        /\ state' = s
        /\ envTime' = s.time
    /\ pc' = "while"
    /\ console' = "none"
    /\ UNCHANGED <<args, sigint, dispatch, audit, loopVars, nextState, bodyVars, memory, modelVars,
                   syncCalls, error, finalSaves, fileLog>>

InitStateReject ==
    /\ pc = "initState"
    /\ Abort("EnvironmentError")

\* OnOptimizeError without the try/catch: the exception leaves trainDinoModel
OnOptimizeError_Rethrow(e) ==
    /\ caught' = e
    /\ console' = "Error during training"
    /\ error' = e
    /\ pc' = "saveMain"
    /\ finalSaves' = <<"main">>
    /\ UNCHANGED <<state, loopVars>>

\* what the loop does with an exception of the optimization: catch (e) { console.log(e) }
OnOptimizeError(e) ==
    /\ caught' = e
    /\ console' = e
    /\ pc' = "poll"
    /\ UNCHANGED <<error, finalSaves, state, loopVars>>

\* one pass of the while body up to its first pending await: encode, select and
\* dispatch the action, then either start an optimization or poll the next state
Step ==
    /\ pc = "while"
    /\ ~state.done
    /\ stateTensor' = stateToTensor(state)
    /\ action' \in selectAction(onlineW, stateToTensor(state), epsilon)
    /\ nextState' = NoState
    /\ timeDelta' = NoDelta
    /\ IF MemoryGuard(memory, BatchSize)
       THEN \E sample \in MemorySample(memory, BatchSize) :
              IF sample.throws
              THEN /\ OnOptimizeError("InsufficientDataError")
                   /\ experiences' = NoBatch
                   /\ fitCall' = NoCall
              ELSE /\ caught' = "none"
                   /\ console' = "none"
                   /\ experiences' = sample.batch
                   /\ fitCall' = FitArguments(sample.batch, args.gamma, onlineW, targetW)
                   /\ pc' = "fit"
                   /\ UNCHANGED <<error, finalSaves, state, loopVars>>
       ELSE /\ caught' = "none"
            /\ console' = "none"
            /\ experiences' = NoBatch
            /\ fitCall' = NoCall
            /\ pc' = "poll"
            /\ UNCHANGED <<error, finalSaves, state, loopVars>>
    /\ dispatch' = "inFlight"
    /\ UNCHANGED <<args, sigint, audit, memory, modelVars, syncCalls, fileLog, envTime>>

\* await optimizeModel(...) resolves: the fit has updated the online model
FitResolve ==
    /\ pc = "fit"
    /\ onlineW' \in FitResults
    /\ experiences' = NoBatch
    /\ fitCall' = NoCall
    /\ pc' = "poll"
    /\ console' = "none"
    /\ UNCHANGED <<args, sigint, dispatch, audit, loopVars, state, nextState, stateTensor, action, timeDelta,
                   caught, memory, targetW, savedMain, savedTarget, syncCalls, error,
                   finalSaves, fileLog, envTime>>

\* await optimizeModel(...) rejects
FitReject ==
    /\ pc = "fit"
    /\ OnOptimizeError("OptimizationError")
    /\ experiences' = NoBatch
    /\ fitCall' = NoCall
    /\ UNCHANGED <<args, sigint, dispatch, audit, nextState, stateTensor, action, timeDelta,
                   memory, modelVars, syncCalls, fileLog, envTime>>

\* nextState = await proxy.state() resolves (line 104 or 107); the polling loop
\* either waits and asks again or leaves for the evaluation of the step
PollResolve ==
    /\ pc = "poll"
    /\ \E adv \in TimeSteps : \E ns \in ProxyStates(adv) :
        /\ nextState' = ns
        /\ envTime' = ns.time
        /\ pc' = IF PollAgain(state, ns) THEN "poll" ELSE "decide"
    /\ console' = "none"
    /\ UNCHANGED <<args, sigint, dispatch, audit, loopVars, state, bodyVars, memory, modelVars, syncCalls,
                   error, finalSaves, fileLog>>

PollReject ==
    /\ pc = "poll"
    /\ Abort("EnvironmentError")

\* a transition with the two observations the wrong way round
Transition_Swapped(st, a, r, ns, d) ==
    [state |-> ns, action |-> a, reward |-> r, nextState |-> st, done |-> d]

\* the transition stored for an accepted step
Transition(st, a, r, ns, d) ==
    [state |-> st, action |-> a, reward |-> r, nextState |-> ns, done |-> d]

\* the history once the transition t went into memory.add
Tally(a, t) ==
    [rewards |-> a.rewards + t.reward,
     dones |-> a.dones + (IF t.done THEN 1 ELSE 0),
     adds |-> Min(a.adds + 1, Capacity + 1)]

\* lines 110-148: evaluate the step if and only if in the time frame, then advance
Decide ==
    /\ pc = "decide"
    /\ timeDelta' = nextState.time - state.time
    /\ IF OutsideWindow(nextState.time - state.time)
       THEN /\ console' = IF ~nextState.done THEN "Time delta warning" ELSE "none"
            /\ UNCHANGED <<memory, episodeReward, epsilon, audit>>
       ELSE /\ episodeReward' = episodeReward + Reward(nextState, action)
            /\ memory' = MemoryAdd(memory,
                            Transition(stateTensor, action, Reward(nextState, action),
                                       stateToTensor(nextState), nextState.done))
            /\ audit' = Tally(audit,
                            Transition(stateTensor, action, Reward(nextState, action),
                                       stateToTensor(nextState), nextState.done))
            /\ epsilon' = DecayedEpsilon(episode)
            /\ console' = "none"
    /\ state' = nextState
    /\ pc' = "while"
    /\ UNCHANGED <<args, sigint, dispatch, episode, nextState, stateTensor, action, experiences, fitCall,
                   caught, modelVars, syncCalls, error, finalSaves, fileLog, envTime>>

\* lines 157-161: the episode's log line, the accumulator reset, episode++
EndEpisode ==
    /\ fileLog' = [episode |-> episode + 1, epsilon |-> epsilon, reward |-> episodeReward]
    /\ episodeReward' = 0
    /\ episode' = episode + 1
    /\ pc' = "for"
    /\ UNCHANGED epsilon

\* setWeights that leaves the target model as it was
setWeights_NoCopy(onlineWeights, targetWeights) == targetWeights

\* targetModel.setWeights(onlineModel.getWeights()): the target's weights afterwards
setWeights(onlineWeights, targetWeights) == onlineWeights

\* the while loop ends on a terminal state; updateTargetModel is invoked on
\* schedule (weights copied, save of the online model pending) or the episode ends
WhileExit ==
    /\ pc = "while"
    /\ state.done
    /\ state' = NoState
    /\ BodyReset
    /\ console' = "none"
    /\ IF ShouldSync(episode)
       THEN /\ syncCalls' = syncCalls + 1
            /\ targetW' = setWeights(onlineW, targetW)
            /\ pc' = "syncSaveMain"
            /\ UNCHANGED <<loopVars, fileLog>>
       ELSE /\ EndEpisode
            /\ UNCHANGED <<syncCalls, targetW>>
    /\ UNCHANGED <<args, sigint, dispatch, audit, memory, onlineW, savedMain, savedTarget, error, finalSaves,
                   envTime>>

\* await onlineModel.save('.../main') resolves inside updateTargetModel
SyncSaveMainResolve ==
    /\ pc = "syncSaveMain"
    /\ savedMain' = onlineW
    /\ pc' = "syncSaveTarget"
    /\ console' = "none"
    /\ UNCHANGED <<args, sigint, dispatch, audit, loopVars, state, nextState, bodyVars, memory, onlineW, targetW,
                   savedTarget, syncCalls, error, finalSaves, fileLog, envTime>>

\* await targetModel.save('.../target') resolves: updateTargetModel returns
SyncSaveTargetResolve ==
    /\ pc = "syncSaveTarget"
    /\ savedTarget' = targetW
    /\ EndEpisode
    /\ console' = "none"
    /\ UNCHANGED <<args, sigint, dispatch, audit, state, nextState, bodyVars, memory, onlineW, targetW,
                   savedMain, syncCalls, error, finalSaves, envTime>>

\* a save inside updateTargetModel rejects: nothing in trainDinoModel catches it
SyncSaveReject ==
    /\ pc \in {"syncSaveMain", "syncSaveTarget"}
    /\ Abort("PersistenceError")

\* setupModelTraining, line 351: await model.save('.../main') resolves
FinalSaveMainResolve ==
    /\ pc = "saveMain"
    /\ savedMain' = onlineW
    /\ finalSaves' = Append(finalSaves, "target")
    /\ pc' = "saveTarget"
    /\ console' = "none"
    /\ UNCHANGED <<args, sigint, dispatch, audit, loopVars, state, nextState, bodyVars, memory, onlineW, targetW,
                   savedTarget, syncCalls, error, fileLog, envTime>>

\* setupModelTraining, line 352: await targetModel.save('.../target') resolves
FinalSaveTargetResolve ==
    /\ pc = "saveTarget"
    /\ savedTarget' = targetW
    /\ pc' = "finished"
    /\ console' = "none"
    /\ UNCHANGED <<args, sigint, dispatch, audit, loopVars, state, nextState, bodyVars, memory, onlineW, targetW,
                   savedMain, syncCalls, error, finalSaves, fileLog, envTime>>

\* one of the two final saves rejects: setupModelTraining rejects
FinalSaveReject ==
    /\ pc \in {"saveMain", "saveTarget"}
    /\ pc' = "rejected"
    /\ console' = "none"
    /\ UNCHANGED <<args, sigint, dispatch, audit, loopVars, state, nextState, bodyVars, memory, modelVars,
                   syncCalls, error, finalSaves, fileLog, envTime>>

Next ==
    \/ ForTest
    \/ RestartResolve
    \/ RestartReject
    \/ InitStateResolve
    \/ InitStateReject
    \/ Step
    \/ FitResolve
    \/ FitReject
    \/ PollResolve
    \/ PollReject
    \/ Decide
    \/ WhileExit
    \/ SyncSaveMainResolve
    \/ SyncSaveTargetResolve
    \/ SyncSaveReject
    \/ FinalSaveMainResolve
    \/ FinalSaveTargetResolve
    \/ FinalSaveReject

Spec == Init /\ [][Next]_vars

----------------------------------------------------------------------------
(* What runs beside the training loop: the environment taking a dispatched  *)
(* action, and the SIGINT handler of setupModelTraining (saveAndExit)       *)

\* the game has taken the key press of a performAction call
DispatchDone ==
    /\ dispatch = "inFlight"
    /\ dispatch' = "none"
    /\ UNCHANGED <<programVars, sigint, audit>>

\* rl.on('SIGINT'): rl.close(), then saveAndExit calls model.save('.../main')
Sigint ==
    /\ sigint = "none"
    /\ sigint' = "saveMain"
    /\ UNCHANGED <<programVars, dispatch, audit>>

\* await model.save('.../main') resolves in saveAndExit; targetModel.save is called
SigintSaveMainResolve ==
    /\ sigint = "saveMain"
    /\ savedMain' = onlineW
    /\ sigint' = "saveTarget"
    /\ UNCHANGED <<args, pc, loopVars, state, nextState, bodyVars, memory, onlineW,
                   targetW, savedTarget, syncCalls, error, finalSaves, console,
                   fileLog, envTime, dispatch, audit>>

\* await targetModel.save('.../target') resolves in saveAndExit; process.exit()
SigintSaveTargetResolve ==
    /\ sigint = "saveTarget"
    /\ savedTarget' = targetW
    /\ sigint' = "exited"
    /\ UNCHANGED <<args, pc, loopVars, state, nextState, bodyVars, memory, onlineW,
                   targetW, savedMain, syncCalls, error, finalSaves, console,
                   fileLog, envTime, dispatch, audit>>

\* a save of saveAndExit rejects: the handler's promise rejects, the
\* uncaughtException listener logs it and the process goes on
SigintSaveReject ==
    /\ sigint \in {"saveMain", "saveTarget"}
    /\ sigint' = "failed"
    /\ console' = "Uncaught Exception"
    /\ UNCHANGED <<args, pc, loopVars, state, nextState, bodyVars, memory, modelVars,
                   syncCalls, error, finalSaves, fileLog, envTime, dispatch, audit>>

\* the training session until process.exit(), with deliveries and the interrupt
\* process.exit() has not been called
Running == sigint # "exited"

NextConc ==
    \/ Running /\ ForTest
    \/ Running /\ RestartResolve
    \/ Running /\ RestartReject
    \/ Running /\ InitStateResolve
    \/ Running /\ InitStateReject
    \/ Running /\ Step
    \/ Running /\ FitResolve
    \/ Running /\ FitReject
    \/ Running /\ PollResolve
    \/ Running /\ PollReject
    \/ Running /\ Decide
    \/ Running /\ WhileExit
    \/ Running /\ SyncSaveMainResolve
    \/ Running /\ SyncSaveTargetResolve
    \/ Running /\ SyncSaveReject
    \/ Running /\ FinalSaveMainResolve
    \/ Running /\ FinalSaveTargetResolve
    \/ Running /\ FinalSaveReject
    \/ Running /\ DispatchDone
    \/ Sigint
    \/ SigintSaveMainResolve
    \/ SigintSaveTargetResolve
    \/ SigintSaveReject

SpecConc == Init /\ [][NextConc]_vars

----------------------------------------------------------------------------
(* Claims about the accept/discard decision of a step *)

\* the transition an accepted step stores, with the reward policy written out
AcceptedTransition ==
    Transition(stateToTensor(state), action,
               IF nextState.done THEN -100 ELSE IF action = 1 THEN 0 ELSE 10,
               stateToTensor(nextState), nextState.done)

\* a step of the loop that evaluates the polled next state (lines 110-148)
DecideStep == pc = "decide" /\ pc' = "while"

\* C1: an iteration whose game-time delta is below 40 or above 60 leaves the replay
\* memory, episodeReward and epsilon unchanged, only advances state to nextState,
\* and warns unless nextState is terminal; a delta of 45 is accepted.
C1_DiscardOutsideWindow ==
    [][DecideStep =>
        LET delta == nextState.time - state.time
        IN  /\ (delta < 40 \/ delta > 60) =>
                /\ memory' = memory
                /\ episodeReward' = episodeReward
                /\ epsilon' = epsilon
                /\ state' = nextState
                /\ console' = IF nextState.done THEN "none" ELSE "Time delta warning"
            /\ (delta = 25 /\ ~nextState.done) => memory' = memory
            /\ delta = 45 =>
                /\ memory'[Len(memory')] = AcceptedTransition
                /\ console' = "none"]_vars

\* a non-terminal step with delta 65 has been discarded with a warning
C1_Witness ==
    /\ pc = "while"
    /\ timeDelta = 65
    /\ ~state.done
    /\ console = "Time delta warning"

\* C2: an accepted step (40 <= delta <= 60) inserts exactly one transition
\* {state, action, reward, nextState, done} and adds its reward to episodeReward;
\* reward is -1 for a terminal nextState, else 0 for a jump, else 0.1.
C2_AcceptedStepStored ==
    [][DecideStep =>
        LET delta == nextState.time - state.time
            n == Len(memory)
        IN  (40 <= delta /\ delta <= 60) =>
                /\ Len(memory') = IF n < Capacity THEN n + 1 ELSE Capacity
                /\ memory'[Len(memory')] = AcceptedTransition
                /\ \A i \in 1..(Len(memory') - 1) :
                      memory'[i] = memory[i + (n + 1 - Len(memory'))]
                /\ episodeReward' = episodeReward + AcceptedTransition.reward
                /\ stateTensor = stateToTensor(state)]_vars

\* a jump into a terminal state has been accepted and stored with reward -1
C2_Witness ==
    /\ pc = "while"
    /\ state.done
    /\ timeDelta = 45
    /\ action = 1
    /\ Len(memory) > 0
    /\ memory[Len(memory)].reward = -100
    /\ memory[Len(memory)].action = 1
    /\ memory[Len(memory)].done

----------------------------------------------------------------------------
(* Claims about the target synchronisation *)

InEpisode == pc \in {"for", "restart", "initState", "while", "fit", "poll", "decide"}
InSync == pc \in {"syncSaveMain", "syncSaveTarget"}
SessionOver == pc \in {"saveMain", "saveTarget", "finished", "rejected"}

\* C3: updateTargetModel is invoked exactly once at the end of each episode whose
\* completed-episode count is a multiple of targetUpdateFrequency and nowhere else:
\* at every point of the loop the number of invocations is the number of such episodes.
C3_SyncOnSchedule ==
    /\ InEpisode => syncCalls = episode \div TargetUpdateFrequency
    /\ InSync =>
        /\ (episode + 1) % TargetUpdateFrequency = 0
        /\ syncCalls = (episode + 1) \div TargetUpdateFrequency
    /\ SessionOver =>
        \/ syncCalls = episode \div TargetUpdateFrequency
        \/ /\ error = "PersistenceError"
           /\ syncCalls = (episode + 1) \div TargetUpdateFrequency

\* a first episode ended without a synchronisation and a later one with one
C3_Witness ==
    /\ pc = "for"
    /\ episode = TargetUpdateFrequency
    /\ episode > 1
    /\ syncCalls = 1

\* C4: after a completed updateTargetModel the target's weights equal the online
\* weights, the online model is stored under main and the target under target;
\* the copy is done before either save.
C4_SyncCopiesThenSaves ==
    /\ pc = "syncSaveMain" => targetW = onlineW
    /\ pc = "syncSaveTarget" => (targetW = onlineW /\ savedMain = onlineW)
    /\ (pc = "for" /\ episode > 0 /\ episode % TargetUpdateFrequency = 0) =>
        /\ targetW = onlineW
        /\ savedMain = onlineW
        /\ savedTarget = targetW

\* a synchronisation has completed that changed the target's weights
C4_Witness ==
    /\ pc = "for"
    /\ episode > 0
    /\ episode % TargetUpdateFrequency = 0
    /\ savedTarget = "w1"
    /\ targetW = "w1"

----------------------------------------------------------------------------
(* optimizeModel on arbitrary batches: the optimization step of the loop started
   from any replay memory, any pair of models and several discount factors *)

\* the discount factors considered, in tenths
Gammas == {5, 9}

\* feature vectors without and with an obstacle
SomeTensors == {stateToTensor(Observation(t, FALSE)) : t \in {0, 50}}

\* experiences of any shape: terminal ones with either reward, either action
AnyExperiences ==
    {Transition(IF a = 1 THEN stateToTensor(Observation(50, FALSE))
                ELSE stateToTensor(Observation(0, FALSE)),
                a, rd[1], ns, rd[2]) :
        a \in {0, 1}, ns \in SomeTensors,
        rd \in {<<-1 * Scale, TRUE>>, <<Scale \div 10, TRUE>>, <<Scale \div 10, FALSE>>}}

InitOpt ==
    /\ args \in {[gamma |-> g, epsilonStart |-> 0, epsilonEnd |-> 10, epsilonDecay |-> 2] :
                    g \in Gammas}
    /\ pc = "while"
    /\ episode = 0
    /\ epsilon = 0
    /\ episodeReward = 0
    /\ state = Observation(0, FALSE)
    /\ nextState = NoState
    /\ stateTensor = NoTensor
    /\ action = NoAction
    /\ timeDelta = NoDelta
    /\ memory \in [1..BatchSize -> AnyExperiences]
    /\ experiences = NoBatch
    /\ fitCall = NoCall
    /\ caught = "none"
    /\ onlineW \in Weights
    /\ targetW \in {"w1", "w2"}
    /\ savedMain = "none"
    /\ savedTarget = "none"
    /\ syncCalls = 0
    /\ error = "none"
    /\ finalSaves = <<>>
    /\ console = "none"
    /\ fileLog = "separator"
    /\ envTime = 0
    /\ dispatch = "none"
    /\ sigint = "none"
    /\ audit = NoAudit

NextOpt ==
    \/ Step
    \/ FitResolve
    \/ FitReject

SpecOpt == InitOpt /\ [][NextOpt]_vars

\* the fit call of optimizeModel is pending
Fitting == pc = "fit"

\* C5: for every transition of the batch with done = true the target written at
\* the taken action's index is the transition's reward, whatever gamma and the
\* target model's output are.
C5_TerminalTargetIsReward ==
    Fitting =>
        \A i \in 1..Len(experiences) :
            experiences[i].done =>
                fitCall.y[i][experiences[i].action + 1] = experiences[i].reward

\* a terminal transition with reward 0.1 is fitted while the target model's
\* next-state values are not zero
C5_Witness ==
    /\ Fitting
    /\ \E i \in 1..Len(experiences) :
        /\ experiences[i].done
        /\ experiences[i].reward = 10
        /\ fitCall.y[i][experiences[i].action + 1] = 10
        /\ apply(targetW, experiences[i].nextState) # <<0, 0>>

\* C6: for every transition i with done = false the target at the taken action is
\* reward + gamma * targetModel(nextState_i)[a*], a* the first maximum of
\* onlineModel(nextState_i); the untaken action's component is the online model's
\* prediction for state_i.
C6_DoubleDQNTarget ==
    Fitting =>
        \A i \in 1..Len(experiences) :
            LET e == experiences[i]
                qOnlineNext == apply(onlineW, e.nextState)
                best == IF qOnlineNext[2] > qOnlineNext[1] THEN 2 ELSE 1
                untaken == 2 - e.action
            IN  /\ ~e.done =>
                    fitCall.y[i][e.action + 1] =
                        e.reward + (args.gamma * apply(targetW, e.nextState)[best]) \div 10
                /\ fitCall.y[i][untaken] = apply(onlineW, e.state)[untaken]
                /\ fitCall.x[i] = e.state

\* a non-terminal transition in the second batch row is fitted where the two
\* models prefer different next actions and the rows differ
C6_Witness ==
    /\ Fitting
    /\ Len(experiences) >= 2
    /\ ~experiences[2].done
    /\ experiences[1] # experiences[2]
    /\ argMax(apply(onlineW, experiences[2].nextState))
          # argMax(apply(targetW, experiences[2].nextState))
    /\ apply(targetW, experiences[2].nextState)[1] # apply(targetW, experiences[2].nextState)[2]

----------------------------------------------------------------------------
(* Claims about the guard of the optimization and about failures *)

\* C7: the loop samples only when the replay memory holds at least batchSize
\* entries, so the insufficient-data failure of sample never happens; with fewer
\* entries no optimization step is run.
C7_SampleGuarded ==
    /\ caught # "InsufficientDataError"
    /\ console # "InsufficientDataError"
    /\ (experiences # NoBatch \/ fitCall # NoCall \/ Fitting) => Len(memory) >= BatchSize
    /\ Len(memory) < BatchSize => (experiences = NoBatch /\ fitCall = NoCall /\ ~Fitting)

\* an iteration has dispatched its action and polls without having optimized,
\* the memory holding some entries but fewer than a batch
C7_Witness ==
    /\ pc = "poll"
    /\ action # NoAction
    /\ Len(memory) > 0
    /\ Len(memory) < BatchSize
    /\ caught = "none"

\* C8: an exception of the sampling or of optimizeModel is caught and logged and
\* the episode goes on: the iteration polls the next state and evaluates the step;
\* replay memory, epsilon and episodeReward are not altered by the failure.
C8_OptimizeErrorIsolated ==
    [][/\ (caught = "none" /\ caught' # "none") =>
            /\ pc' = "poll"
            /\ console' = caught'
            /\ error' = "none"
            /\ memory' = memory
            /\ epsilon' = epsilon
            /\ episodeReward' = episodeReward
            /\ episode' = episode
            /\ state' = state
       /\ caught' # "none" =>
            /\ pc' \in {"poll", "decide", "while"}
            /\ error' = "none"
       /\ (caught # "none" /\ pc = "poll" /\ pc' # "poll") =>
            \/ pc' = "decide" /\ ~PollAgain(state', nextState')
            \/ error' = "EnvironmentError"]_vars

\* after a failed optimization the iteration's step has been accepted and stored
C8_Witness ==
    /\ pc = "while"
    /\ caught = "OptimizationError"
    /\ timeDelta = 45
    /\ error = "none"
    /\ memory[Len(memory)].state = stateTensor
    /\ memory[Len(memory)].action = action

\* C9: a failing save of the online or the target model during a periodic
\* synchronisation does not end training: the loop goes on with the models in memory.
C9_SaveFailureKeepsTraining ==
    ~(SessionOver /\ error = "PersistenceError" /\ episode < Episodes)

\* C10: an environment failure inside trainDinoModel aborts the session, is reported
\* by setupModelTraining, and afterwards a save of both the online and the target
\* model is attempted.
C10_EnvFailureAbortsThenSavesBoth ==
    error = "EnvironmentError" =>
        /\ SessionOver
        /\ pc = "saveMain" => (console = "Error during training" /\ finalSaves = <<"main">>)
        /\ pc \in {"saveTarget", "finished", "rejected"} => finalSaves = <<"main", "target">>

----------------------------------------------------------------------------
(* Claims about what runs concurrently with the training loop *)

\* saveAndExit has been entered by the SIGINT handler and has not finished
InterruptSaving == sigint \in {"saveMain", "saveTarget"}

\* C11: on SIGINT the loop first finishes or abandons its step in flight, then both
\* models are saved before the process terminates: from the start of the
\* interrupt-triggered save on, no training-loop step (action selection, fit,
\* insertion into the replay memory, periodic copy and save of the target model)
\* is interleaved with it.
C11_InterruptSaveNotInterleaved ==
    [][InterruptSaving =>
         UNCHANGED <<pc, episode, state, nextState, action, memory, onlineW, targetW,
                     syncCalls>>]_vars

\* a call of the loop to the environment proxy (restart or state) is awaited
EnvCallPending == pc \in {"restart", "initState", "poll"}

\* C12: the environment is never queried with proxy.state() while a performAction
\* dispatch of the loop is still in flight: no two environment operations of the
\* loop are outstanding at the same time.
C12_EnvironmentOpsSequenced ==
    ~(EnvCallPending /\ dispatch = "inFlight")

----------------------------------------------------------------------------
(* The state encoder on its own: stateToTensor applied to a State *)

\* how far below 19 and beyond 19 + 39 * 16 the obstacle positions tried reach
XMargin == 40

\* an obstacle at x
ObstacleAt(x) == [xPos |-> x, yPos |-> 105, width |-> 51, size |-> 3]

\* the obstacle lists tried: empty, one entry, two entries, more than two
ObstacleLists ==
    {<<>>}
    \cup {<<ObstacleAt(x)>> : x \in (19 - XMargin)..(19 + 39 * 16 + XMargin)}
    \cup {<<ObstacleAt(x), ObstacleAt(y)>> :
            x \in (19 - XMargin)..(19 + 39 * 16 + XMargin), y \in {-5, 19, 300, 700}}
    \cup {<<ObstacleAt(x), ObstacleAt(400), ObstacleAt(y)>> :
            x \in {19, 100}, y \in {20, 500}}

\* the States tried: well-formed ones, and ones whose obstacles property is missing
EncoderInputs ==
    {[time |-> 0, done |-> FALSE, obstacles |-> o, jumping |-> j, ypos |-> 93] :
        o \in ObstacleLists, j \in BOOLEAN}
    \cup {[time |-> 0, done |-> FALSE, jumping |-> j, ypos |-> 93] : j \in BOOLEAN}

InitEnc ==
    /\ args \in Arguments
    /\ pc = "encode"
    /\ episode = 0
    /\ epsilon = args.epsilonStart
    /\ episodeReward = 0
    /\ state \in EncoderInputs
    /\ nextState = NoState
    /\ stateTensor = NoTensor
    /\ action = NoAction
    /\ timeDelta = NoDelta
    /\ memory = <<>>
    /\ experiences = NoBatch
    /\ fitCall = NoCall
    /\ caught = "none"
    /\ onlineW = "w0"
    /\ targetW = "w0"
    /\ savedMain = "none"
    /\ savedTarget = "none"
    /\ syncCalls = 0
    /\ error = "none"
    /\ finalSaves = <<>>
    /\ console = "none"
    /\ fileLog = "separator"
    /\ envTime = 0
    /\ dispatch = "none"
    /\ sigint = "none"
    /\ audit = NoAudit

\* const stateTensor = stateToTensor(state)
Encode ==
    /\ pc = "encode"
    /\ stateTensor' = stateToTensor(state)
    /\ pc' = "encoded"
    /\ UNCHANGED <<args, loopVars, state, nextState, action, timeDelta, memory,
                   experiences, fitCall, caught, modelVars, syncCalls, error,
                   finalSaves, console, fileLog, envTime, dispatch, sigint, audit>>

NextEnc == Encode

SpecEnc == InitEnc /\ [][NextEnc]_vars

\* the block of the k-th obstacle starts at this 0-based index
BlockOffset(k) == 43 * (k - 1)

\* clamp(floor((x - 19) / 16), 0, 39)
ClampedFloorBucket(x) ==
    LET f == (x - 19) \div 16
    IN  IF f < 0 THEN 0 ELSE IF f > 39 THEN 39 ELSE f

\* C13: for an obstacle at integer x the encoder sets exactly one bit of the
\* obstacle's 40-wide distance segment, the one at clamp(floor((x - 19) / 16), 0, 39):
\* index 0 for every x <= 19, index 39 for every x >= 19 + 39 * 16, never a bit
\* outside the segment's 0..39 or in the other obstacle's segment.
C13_DistanceOneHotClamped ==
    (pc = "encoded" /\ "obstacles" \in DOMAIN state) =>
        \A k \in 1..2 : \A i \in 0..39 :
            stateTensor[BlockOffset(k) + i + 1] =
                IF /\ k <= Len(state.obstacles)
                   /\ i = ClampedFloorBucket(state.obstacles[k].xPos)
                THEN 1 ELSE 0

\* an obstacle far below 19, where truncation and floor differ, and a second one
\* beyond the last bucket have been encoded
C13_Witness ==
    /\ pc = "encoded"
    /\ "obstacles" \in DOMAIN state
    /\ Len(state.obstacles) = 2
    /\ state.obstacles[1].xPos = -10
    /\ state.obstacles[2].xPos = 700
    /\ stateTensor[1] = 1
    /\ stateTensor[43 + 39 + 1] = 1

\* C14: stateToTensor is total, with no error path: for every State, the obstacle
\* list empty, of one entry, of more than two entries, or missing, it returns a
\* vector of length 88 in which the block of every absent obstacle is all zero and
\* only the first two obstacles are encoded.
C14_EncoderTotal ==
    pc = "encoded" =>
        /\ Len(stateTensor) = 88
        /\ \A k \in 1..2 : k > Len(state.obstacles) =>
              \A i \in 0..42 : stateTensor[BlockOffset(k) + i + 1] = 0
        /\ stateTensor =
              stateToTensor([state EXCEPT !.obstacles =
                                SubSeq(state.obstacles, 1, Min(2, Len(state.obstacles)))])

----------------------------------------------------------------------------
(* Claims about the exploration schedule *)

\* exp(-k / 2) for k = 0..5, in millionths
ExpOfHalves == <<1000000, 606531, 367879, 223130, 135335, 82085>>

\* epsilonEnd + (epsilonStart - epsilonEnd) * exp(-e / epsilonDecay) in thousandths,
\* for the epsilonDecay of 2 of the arguments tried
ScheduledEpsilon(e) ==
    args.epsilonEnd
    + ((args.epsilonStart - args.epsilonEnd) * ExpOfHalves[e + 1]) \div 1000000

\* the step being decided lies in the time window: it is accepted
AcceptedStep ==
    /\ DecideStep
    /\ nextState.time - state.time >= MinDelta
    /\ nextState.time - state.time <= MaxDelta

\* C15: for epsilonStart > epsilonEnd the sequence of epsilon values over a run
\* never increases, never falls below epsilonEnd, never exceeds epsilonStart, changes
\* on accepted steps only, and after an accepted step in episode e it equals
\* epsilonEnd + (epsilonStart - epsilonEnd) * exp(-e / epsilonDecay) (to one
\* thousandth, the resolution of the model).
C15_EpsilonDecaysByEpisode ==
    [][args.epsilonStart > args.epsilonEnd =>
         /\ epsilon' <= epsilon
         /\ epsilon' >= args.epsilonEnd
         /\ epsilon' <= args.epsilonStart
         /\ AcceptedStep =>
               /\ epsilon' - ScheduledEpsilon(episode) <= 1
               /\ ScheduledEpsilon(episode) - epsilon' <= 1
         /\ ~AcceptedStep => epsilon' = epsilon]_vars

\* a step of the second episode has been accepted and epsilon has decayed below
\* epsilonStart
C15_Witness ==
    /\ pc = "while"
    /\ args.epsilonStart > args.epsilonEnd
    /\ episode = 1
    /\ timeDelta >= MinDelta
    /\ timeDelta <= MaxDelta
    /\ epsilon < args.epsilonStart
    /\ epsilon = ScheduledEpsilon(1)

----------------------------------------------------------------------------
(* Claims about the replay memory as the loop uses it *)

\* C16: the replay memory never holds more than its capacity, however many
\* transitions the loop adds; an insertion into a full memory evicts exactly the
\* oldest entry and puts the new one last (after capacity + 1 insertions the first
\* is gone and the newest present); nothing but an accepted step changes the
\* memory, in particular sampling removes nothing.
C16_MemoryBoundedFifo ==
    [][/\ Len(memory') <= Capacity
       /\ AcceptedStep =>
             /\ memory'[Len(memory')] = AcceptedTransition
             /\ IF Len(memory) = Capacity
                THEN /\ Len(memory') = Capacity
                     /\ \A i \in 1..(Capacity - 1) : memory'[i] = memory[i + 1]
                ELSE /\ Len(memory') = Len(memory) + 1
                     /\ \A i \in 1..Len(memory) : memory'[i] = memory[i]
       /\ ~AcceptedStep => memory' = memory]_vars

\* more transitions than the capacity have been added and the memory is full with
\* the latest transition last
C16_Witness ==
    /\ pc = "while"
    /\ audit.adds = Capacity + 1
    /\ Len(memory) = Capacity
    /\ timeDelta >= MinDelta
    /\ timeDelta <= MaxDelta
    /\ memory[Capacity].state = stateTensor
    /\ memory[Capacity].action = action

----------------------------------------------------------------------------
(* Claims about the polling loop *)

\* C17: the polling loop exits only when the next state is terminal or at least
\* 40 ms of game time have passed since the current state: when the step is
\* decided a delta below 40 comes with a terminal next state only, so every
\* discarded step that is not terminal (the warned ones) has a delta above 60.
C17_PollingExit ==
    /\ pc = "decide" =>
          (nextState.done \/ nextState.time - state.time >= MinDelta)
    /\ (pc = "while" /\ timeDelta # NoDelta /\ timeDelta < MinDelta) => state.done
    /\ console = "Time delta warning" => (timeDelta > MaxDelta /\ ~state.done)

\* the polling loop has exited before 40 ms on a terminal state
C17_Witness ==
    /\ pc = "decide"
    /\ nextState.done
    /\ nextState.time - state.time < MinDelta
    /\ nextState.time - state.time > 0

----------------------------------------------------------------------------
(* Claims about the end of an episode *)

\* the step that ends an episode which reached a terminal state: the while loop
\* is left without a synchronisation, or the synchronisation is left
EpisodeEnds ==
    /\ (pc = "while" /\ state.done) \/ InSync
    /\ ~(pc' \in {"syncSaveMain", "syncSaveTarget"})

\* C18: at the end of every episode that reaches a terminal state one log line is
\* appended with the 1-based episode index, the current epsilon and the episode's
\* total reward, which is the sum of the rewards of exactly the accepted steps of
\* that episode, and the accumulator is then reset to 0; this holds for the
\* episodes at which updateTargetModel is invoked as well.
C18_EpisodeLoggedAndReset ==
    [][EpisodeEnds =>
         /\ fileLog' = [episode |-> episode + 1, epsilon |-> epsilon,
                        reward |-> audit.rewards]
         /\ episodeReward = audit.rewards
         /\ episodeReward' = 0]_vars

----------------------------------------------------------------------------
(* Termination of the training loop *)

\* the event loop runs whatever continuation is ready, and every awaited call
\* (environment, fit, save) settles: some step is taken whenever one is possible
SpecLive == Init /\ [][Next]_vars /\ WF_vars(Next)

\* trainDinoModel has returned normally after all its episodes
ReturnedAfterAllEpisodes == SessionOver /\ error = "none" /\ episode = Episodes

\* C20: provided the environment keeps answering, with a game time that advances
\* and a terminal state in the end, each polling loop terminates, each episode
\* terminates, and trainDinoModel returns after exactly Episodes episodes, also
\* when optimizations fail or steps are discarded and when an episode starts in a
\* terminal state (which takes no step but counts as an episode).
C20_TrainingTerminates ==
    /\ (pc = "poll") ~> (pc = "decide" \/ SessionOver)
    /\ (pc = "restart") ~> (pc = "for" \/ SessionOver)
    /\ <>(ReturnedAfterAllEpisodes \/ error = "EnvironmentError")

----------------------------------------------------------------------------
(* Claims about what the replay memory holds *)

\* C19: every stored transition pairs two consecutively adopted observations of
\* one episode, state and the nextState adopted right after it, whose times
\* differ by 40 to 60; an episode stores at most one transition with done = true,
\* which is the last one it stores and has reward -1, and an episode whose
\* terminal state arrives outside the window stores no done = true transition.
C19_StoredTransitions ==
    [][/\ (memory' # memory \/ audit' # audit) => (AcceptedStep \/ pc = "for")
       /\ AcceptedStep =>
             /\ state # NoState
             /\ stateTensor = stateToTensor(state)
             /\ memory'[Len(memory')].state = stateToTensor(state)
             /\ memory'[Len(memory')].nextState = stateToTensor(nextState)
             /\ memory'[Len(memory')].done = nextState.done
             /\ state' = nextState
             /\ audit.dones = 0
             /\ audit'.dones = IF nextState.done THEN 1 ELSE 0
       /\ \A i \in 1..Len(memory') :
             memory'[i].done <=> memory'[i].reward = -Scale
       /\ (DecideStep /\ ~AcceptedStep) => audit'.dones = 0
       /\ (pc = "while" /\ state.done /\ ~(timeDelta \in MinDelta..MaxDelta)) =>
             audit.dones = 0
       /\ (pc = "while" /\ state.done /\ timeDelta \in MinDelta..MaxDelta) =>
             /\ audit.dones = 1
             /\ memory[Len(memory)].done]_vars

\* an episode has stored a transition that is not terminal and then its terminal
\* one, which tells the obstacle-free state from the one with an obstacle
C19_Witness ==
    /\ pc = "while"
    /\ state.done
    /\ audit.dones = 1
    /\ Len(memory) = 2
    /\ ~memory[1].done
    /\ memory[2].done
    /\ memory[2].reward = -Scale
    /\ memory[2].state # memory[2].nextState
    /\ memory[2].nextState = stateToTensor(state)

====
